---------------------------- MODULE Spec2Model ----------------------------
(***************************************************************************)
(* A model of the pixel ECS runtime: Pool<T>, System and Coordinator       *)
(* (ECS.h / ECS.cpp).  Every public operation is one atomic action; the     *)
(* runtime is single-threaded and every call runs to completion.           *)
(*                                                                         *)
(* Vectors (0-based in the source) are sequences; element i of the source  *)
(* is element i + 1 here.  std::unordered_map / std::set are functions     *)
(* with a finite domain / sets.  A bitset is the set of its set bits.      *)
(***************************************************************************)
EXTENDS Integers, Sequences, FiniteSets, TLC

(***************************************************************************)
(* Bounds of the model.                                                    *)
(***************************************************************************)
\* identifiers minted by create() (cap on numEntites); the free list is
\* capped at the same length
MaxEntities == 2
\* entity ids handed to the stand-alone pool are 0 .. MaxPoolEntity
MaxPoolEntity == 2
\* the stand-alone pool is constructed with a capacity in 1 .. MaxCapacity
MaxCapacity == 2
\* the driver stops ticking before a position coordinate passes MaxPosition
MaxPosition == 160

(***************************************************************************)
(* Program constants.                                                      *)
(***************************************************************************)
MAX_COMPONENTS == 32
DefaultCapacity == 100

\* component types, system types, tag and group strings used by the driver:
\* A is TransformComponent, B is RigidBodyComponent, S1 is PhysicsSystem
CompTypes == {"A", "B"}
SysTypes == {"S1", "S2"}
Tags == {"t1", "t2"}
Groups == {"g1", "g2"}
\* A component value is the glm::vec2 the physics pass works on: the position
\* of a TransformComponent, the velocity of a RigidBodyComponent.
Vec2(x, y) == [x |-> x, y |-> y]
\* a default-constructed T, and the values set into the stand-alone pool
DefaultValue == Vec2(0, 0)
Values == {Vec2(1, 0), Vec2(2, 0)}

\* the component types a system type requires, in constructor order
Requires(S) == IF S = "S1" THEN <<"A", "B">> ELSE <<"A">>

VARIABLES
    \* ---- Coordinator ----
    numEntites, entitiesToBeCreated, entitiesToBeDestroyed, freeIds,
    componentPools, systems, entityComponentSignatures,
    entityPerTag, tagPerEntityId, entitiesPerGroup, groupsPerEntityId,
    \* ---- static state of IComponent / Component<T> ----
    nextId, componentId,
    \* ---- a stand-alone Pool<T> and the map it is meant to implement ----
    pool, shadow,
    \* ---- observation of the last call: its name, arguments and result,
    \*      and the state update() (or the pool call) started from ----
    last, pre

coordVars == <<numEntites, entitiesToBeCreated, entitiesToBeDestroyed, freeIds,
               componentPools, systems, entityComponentSignatures,
               entityPerTag, tagPerEntityId, entitiesPerGroup, groupsPerEntityId,
               nextId, componentId>>
poolVars == <<pool, shadow>>
vars == <<coordVars, poolVars, last, pre>>

(***************************************************************************)
(* Finite maps.                                                            *)
(***************************************************************************)
EmptyMap == [x \in {} |-> 0]
Has(m, k) == k \in DOMAIN m
Put(m, k, v) == [x \in DOMAIN m \cup {k} |-> IF x = k THEN v ELSE m[x]]
Erase(m, k) == [x \in DOMAIN m \ {k} |-> m[x]]
\* unordered_map::emplace: inserts only when the key is absent
Emplace(m, k, v) == IF Has(m, k) THEN m ELSE Put(m, k, v)

\* a std::shared_ptr: nullptr, or a pointer Ptr(x) to the object x
Null == <<>>
Ptr(x) == <<x>>
Deref(p) == p[1]
None == "none"

\* a mutant of Ascending: the elements in descending order
RECURSIVE Descending(_)
Descending(S) ==
    IF S = {} THEN <<>>
    ELSE LET m == CHOOSE x \in S : \A y \in S : x >= y
         IN <<m>> \o Descending(S \ {m})

\* the elements of a set of integers in ascending order (std::set iteration)
RECURSIVE Ascending(_)
Ascending(S) ==
    IF S = {} THEN <<>>
    ELSE LET m == CHOOSE x \in S : \A y \in S : x <= y
         IN <<m>> \o Ascending(S \ {m})

Count(s, x) == Cardinality({i \in 1..Len(s) : s[i] = x})
Range(s) == {s[i] : i \in 1..Len(s)}

(***************************************************************************)
(* Pool<T>                                                                 *)
(***************************************************************************)
\* A std::vector<T>: its size, and the slots that hold something other than
\* a default-constructed T (slot i of a vector v is VecAt(v, i))
Vec(n) == [len |-> n, at |-> EmptyMap]
VecAt(v, index) == IF Has(v.at, index) THEN v.at[index] ELSE DefaultValue

\* std::vector::resize(n): new slots are default-constructed
VecResize(v, n) ==
    [len |-> n, at |-> [i \in {j \in DOMAIN v.at : j < n} |-> v.at[i]]]

\* data[index] = object, for an index inside the vector
VecStore(v, index, object) ==
    [len |-> v.len,
     at |-> IF object = DefaultValue THEN Erase(v.at, index)
            ELSE Put(v.at, index, object)]

\* Pool(int capacity = 100): size = 0; data.resize(capacity)
Pool(capacity) ==
    [data |-> Vec(capacity),
     size |-> 0,
     entityIdToIndex |-> EmptyMap,
     indexToEntityId |-> EmptyMap]

\* Pool::set
PoolSet(p, entityId, object) ==
    IF Has(p.entityIdToIndex, entityId)
    THEN [p EXCEPT !.data = VecStore(p.data, p.entityIdToIndex[entityId], object)]
    ELSE LET index == p.size
             grown == IF index >= p.data.len
                      THEN VecResize(p.data, p.size * 2)
                      ELSE p.data
         IN [data |-> VecStore(grown, index, object),
             size |-> p.size + 1,
             entityIdToIndex |-> Put(p.entityIdToIndex, entityId, index),
             indexToEntityId |-> Put(p.indexToEntityId, index, entityId)]

\* a mutant of PoolRemove: the slot is dropped without moving the last one
PoolRemoveNoSwap(p, entityId) ==
    IF ~Has(p.entityIdToIndex, entityId) THEN p
    ELSE LET indexOfRemoved == p.entityIdToIndex[entityId]
         IN [data |-> p.data,
             size |-> p.size - 1,
             entityIdToIndex |-> Erase(p.entityIdToIndex, entityId),
             indexToEntityId |-> Erase(p.indexToEntityId, indexOfRemoved)]

\* a mutant of PoolRemove: the maps are re-pointed, the last slot's object
\* is not moved into the freed slot
PoolRemoveNoMove(p, entityId) ==
    IF ~Has(p.entityIdToIndex, entityId) THEN p
    ELSE LET indexOfRemoved == p.entityIdToIndex[entityId]
             indexOfLast == p.size - 1
             entityIdOfLast == p.indexToEntityId[indexOfLast]
             e2i == Put(p.entityIdToIndex, entityIdOfLast, indexOfRemoved)
             i2e == Put(p.indexToEntityId, indexOfRemoved, entityIdOfLast)
         IN [data |-> p.data,
             size |-> p.size - 1,
             entityIdToIndex |-> Erase(e2i, entityId),
             indexToEntityId |-> Erase(i2e, indexOfLast)]

\* Pool::remove
PoolRemove(p, entityId) ==
    IF ~Has(p.entityIdToIndex, entityId) THEN p
    ELSE LET indexOfRemoved == p.entityIdToIndex[entityId]
             indexOfLast == p.size - 1
             data1 == VecStore(p.data, indexOfRemoved, VecAt(p.data, indexOfLast))
             entityIdOfLast == p.indexToEntityId[indexOfLast]
             e2i == Put(p.entityIdToIndex, entityIdOfLast, indexOfRemoved)
             i2e == Put(p.indexToEntityId, indexOfRemoved, entityIdOfLast)
         IN [data |-> data1,
             size |-> p.size - 1,
             entityIdToIndex |-> Erase(e2i, entityId),
             indexToEntityId |-> Erase(i2e, indexOfLast)]

\* Pool::get for an entity the pool holds
PoolGet(p, entityId) == VecAt(p.data, p.entityIdToIndex[entityId])

\* Pool::get as a call: entityIdToIndex[entityId] is unordered_map::operator[],
\* which inserts entityId -> 0 when the key is absent; the reference returned
\* is to data[0] then
PoolGetCall(p, entityId) ==
    LET e2i == IF Has(p.entityIdToIndex, entityId) THEN p.entityIdToIndex
               ELSE Put(p.entityIdToIndex, entityId, 0)
    IN [pool |-> [p EXCEPT !.entityIdToIndex = e2i],
        value |-> VecAt(p.data, e2i[entityId])]

PoolHolds(p, entityId) == Has(p.entityIdToIndex, entityId)

\* the pool of component id cid holds a component for entity e
Holds(pools, cid, e) ==
    /\ cid < Len(pools)
    /\ pools[cid + 1] # Null
    /\ PoolHolds(Deref(pools[cid + 1]), e)


(***************************************************************************)
(* Component<T>::getId and the signature bitset                            *)
(***************************************************************************)
\* the static registry: reg.next is IComponent::nextId, reg.of holds the
\* function-local static id of every type whose getId() has run
Registry == [next |-> nextId, of |-> componentId]

\* Component<T>::getId(): the registry after the call
RegAfter(reg, T) ==
    IF Has(reg.of, T) THEN reg
    ELSE [next |-> reg.next + 1, of |-> Put(reg.of, T, reg.next)]

\* Component<T>::getId(): the value returned
GetId(reg, T) == RegAfter(reg, T).of[T]

\* std::bitset::set(pos, val); pos >= MAX_COMPONENTS throws std::out_of_range
BitsetInRange(pos) == pos < MAX_COMPONENTS
BitsetSet(sig, pos, val) == IF val THEN sig \cup {pos} ELSE sig \ {pos}

\* a mutant of IsInterested: any shared component is enough
IsInterestedAnyOverlap(entitySignature, systemSignature) ==
    (entitySignature \cap systemSignature) # {} \/ systemSignature = {}

\* (entityComponentSignature & systemComponentSignature) == systemComponentSignature
IsInterested(entitySignature, systemSignature) ==
    (entitySignature \cap systemSignature) = systemSignature

(***************************************************************************)
(* System                                                                  *)
(***************************************************************************)
\* the constructor of system type S: requireComponent<T>() for each required
\* T in order.  NewSystemReg is the registry afterwards.
RECURSIVE RequireAll(_, _, _)
RequireAll(reg, sig, types) ==
    IF types = <<>> THEN [reg |-> reg, sig |-> sig]
    ELSE LET T == Head(types)
         IN RequireAll(RegAfter(reg, T),
                       BitsetSet(sig, GetId(reg, T), TRUE),
                       Tail(types))

NewSystem(reg, S) ==
    [componentSignature |-> RequireAll(reg, {}, Requires(S)).sig,
     entities |-> <<>>]
NewSystemReg(reg, S) == RequireAll(reg, {}, Requires(S)).reg

\* System::addEntityToSystem
AddEntityToSystem(system, entity) ==
    [system EXCEPT !.entities = Append(@, entity)]

\* System::removeEntityToSystem: erase(remove_if(...)) drops every occurrence
RemoveEntityToSystem(system, entity) ==
    [system EXCEPT !.entities = SelectSeq(@, LAMBDA other : other # entity)]

(***************************************************************************)
(* Coordinator: helpers called by the handlers                             *)
(***************************************************************************)
\* the entity handles the driver holds: every identifier minted so far
\* (a handle stays in the driver's hands after its entity is destroyed)
Handles == 0 .. (numEntites - 1)
\* component calls are made for the identifiers that are not waiting in the
\* free list
InUse == Handles \ Range(freeIds)

\* Coordinator::addEntityToSystems
AddEntityToSystems(sys, sigs, entity) ==
    IF entity >= Len(sigs) THEN sys
    ELSE [S \in DOMAIN sys |->
            IF IsInterested(sigs[entity + 1], sys[S].componentSignature)
            THEN AddEntityToSystem(sys[S], entity)
            ELSE sys[S]]

\* Coordinator::removeEntityFromSystems
RemoveEntityFromSystems(sys, entity) ==
    [S \in DOMAIN sys |-> RemoveEntityToSystem(sys[S], entity)]

\* a mutant of AddAllToSystems: the loop stops after its first entity
AddAllToSystemsFirstOnly(sys, sigs, pending) ==
    IF pending = <<>> THEN sys
    ELSE AddEntityToSystems(sys, sigs, Head(pending))

\* the creation loop of update(): pending entities in ascending order
RECURSIVE AddAllToSystems(_, _, _)
AddAllToSystems(sys, sigs, pending) ==
    IF pending = <<>> THEN sys
    ELSE AddAllToSystems(AddEntityToSystems(sys, sigs, Head(pending)),
                         sigs, Tail(pending))

\* Coordinator::removeEntityTag.  The second erase reads entityTag->second
\* from the node the first erase has just freed: the key it reads is the
\* entity's tag when the freed memory is still intact, and garbage that
\* matches no tag otherwise.  Both outcomes are produced.
RemoveEntityTagOutcomes(ept, tpe, entity) ==
    IF Has(tpe, entity)
    THEN {[entityPerTag |-> Erase(ept, tpe[entity]),
           tagPerEntityId |-> Erase(tpe, entity)],
          [entityPerTag |-> ept,
           tagPerEntityId |-> Erase(tpe, entity)]}
    ELSE {[entityPerTag |-> ept, tagPerEntityId |-> tpe]}

\* a mutant of EraseFromGroups: a group left without members stays a key
EraseFromGroupsNoPrune(epg, entity, groups) ==
    [g \in DOMAIN epg |-> IF g \in groups THEN epg[g] \ {entity} ELSE epg[g]]

\* the loop of removeEntityGroups over a copy of the entity's groups
RECURSIVE EraseFromGroups(_, _, _)
EraseFromGroups(epg, entity, groups) ==
    IF groups = {} THEN epg
    ELSE LET group == CHOOSE g \in groups : TRUE
             members == epg[group] \ {entity}
         IN EraseFromGroups(IF members = {} THEN Erase(epg, group)
                            ELSE Put(epg, group, members),
                            entity, groups \ {group})

\* Coordinator::removeEntityGroups
RemoveEntityGroupsMaps(epg, gpe, entity) ==
    IF Has(gpe, entity)
    THEN [entitiesPerGroup |-> EraseFromGroups(epg, entity, gpe[entity]),
          groupsPerEntityId |-> Erase(gpe, entity)]
    ELSE [entitiesPerGroup |-> epg, groupsPerEntityId |-> gpe]

(***************************************************************************)
(* Coordinator: entity management                                          *)
(***************************************************************************)
Init ==
    /\ numEntites = 0
    /\ entitiesToBeCreated = {}
    /\ entitiesToBeDestroyed = {}
    /\ freeIds = <<>>
    /\ componentPools = <<>>
    /\ systems = EmptyMap
    /\ entityComponentSignatures = <<>>
    /\ entityPerTag = EmptyMap
    /\ tagPerEntityId = EmptyMap
    /\ entitiesPerGroup = EmptyMap
    /\ groupsPerEntityId = EmptyMap
    /\ nextId = 0
    /\ componentId = EmptyMap
    /\ pool = Null
    /\ shadow = EmptyMap
    /\ last = [op |-> "construct", e |-> None, arg |-> None, threw |-> FALSE]
    /\ pre = None

\* a mutant of AllocateId: the newest freed identifier is reused first
AllocateIdNewestFirst(free, n) ==
    IF free = <<>>
    THEN [id |-> n, free |-> free, n |-> n + 1, recycled |-> FALSE]
    ELSE [id |-> free[Len(free)], free |-> SubSeq(free, 1, Len(free) - 1),
          n |-> n, recycled |-> TRUE]

\* the identifier create() picks: a fresh one (numEntites++) when the free
\* list is empty, freeIds.front() (and pop_front) otherwise
AllocateId(free, n) ==
    IF free = <<>>
    THEN [id |-> n, free |-> free, n |-> n + 1, recycled |-> FALSE]
    ELSE [id |-> Head(free), free |-> Tail(free), n |-> n, recycled |-> TRUE]

\* the signature vector after create(): doubled (2 when empty) when the
\* fresh identifier is past its end
GrowSignatures(sigs, a) ==
    IF ~a.recycled /\ a.id >= Len(sigs)
    THEN LET newSize == IF Len(sigs) = 0 THEN 2 ELSE 2 * Len(sigs)
         IN [i \in 1..newSize |-> IF i <= Len(sigs) THEN sigs[i] ELSE {}]
    ELSE sigs

\* Coordinator::create
Create ==
    /\ freeIds = <<>> => numEntites < MaxEntities
    /\ LET a == AllocateId(freeIds, numEntites)
       IN /\ numEntites' = a.n
          /\ freeIds' = a.free
          /\ entityComponentSignatures' = GrowSignatures(entityComponentSignatures, a)
          /\ entitiesToBeCreated' = entitiesToBeCreated \cup {a.id}
          /\ last' = [op |-> "create", e |-> a.id,
                      arg |-> IF a.recycled THEN "recycled" ELSE "minted",
                      threw |-> FALSE]
    /\ pre' = None
    /\ UNCHANGED <<entitiesToBeDestroyed, componentPools, systems,
                   entityPerTag, tagPerEntityId, entitiesPerGroup,
                   groupsPerEntityId, nextId, componentId, poolVars>>

\* a mutant of Destroy: a repeated request frees the identifier at once
DestroyRepeatedFrees(entity) ==
    /\ Len(freeIds) + Cardinality(entitiesToBeDestroyed \cup {entity}) < MaxEntities
    /\ entitiesToBeDestroyed' = entitiesToBeDestroyed \cup {entity}
    /\ freeIds' = IF entity \in entitiesToBeDestroyed
                  THEN Append(freeIds, entity) ELSE freeIds
    /\ last' = [op |-> "destroy", e |-> entity,
                arg |-> IF entity \in entitiesToBeDestroyed THEN "repeated" ELSE "first",
                threw |-> FALSE]
    /\ pre' = None
    /\ UNCHANGED <<numEntites, entitiesToBeCreated, componentPools,
                   systems, entityComponentSignatures, entityPerTag,
                   tagPerEntityId, entitiesPerGroup, groupsPerEntityId,
                   nextId, componentId, poolVars>>

\* a mutant of Destroy: the entity leaves the systems' lists at once
DestroyLeavesSystems(entity) ==
    /\ Len(freeIds) + Cardinality(entitiesToBeDestroyed \cup {entity}) <= MaxEntities
    /\ entitiesToBeDestroyed' = entitiesToBeDestroyed \cup {entity}
    /\ systems' = RemoveEntityFromSystems(systems, entity)
    /\ last' = [op |-> "destroy", e |-> entity,
                arg |-> IF entity \in entitiesToBeDestroyed THEN "repeated" ELSE "first",
                threw |-> FALSE]
    /\ pre' = None
    /\ UNCHANGED <<numEntites, entitiesToBeCreated, freeIds, componentPools,
                   entityComponentSignatures, entityPerTag,
                   tagPerEntityId, entitiesPerGroup, groupsPerEntityId,
                   nextId, componentId, poolVars>>

\* Coordinator::destroy
Destroy(entity) ==
    /\ Len(freeIds) + Cardinality(entitiesToBeDestroyed \cup {entity}) <= MaxEntities
    /\ entitiesToBeDestroyed' = entitiesToBeDestroyed \cup {entity}
    /\ last' = [op |-> "destroy", e |-> entity,
                arg |-> IF entity \in entitiesToBeDestroyed THEN "repeated" ELSE "first",
                threw |-> FALSE]
    /\ pre' = None
    /\ UNCHANGED <<numEntites, entitiesToBeCreated, freeIds, componentPools,
                   systems, entityComponentSignatures, entityPerTag,
                   tagPerEntityId, entitiesPerGroup, groupsPerEntityId,
                   nextId, componentId, poolVars>>

(***************************************************************************)
(* Coordinator: component management                                       *)
(***************************************************************************)
\* the constructor arguments of addComponent in the coordinator's
\* specifications: none, the new component is a default-constructed T
\* (component values play no part in signatures or membership)
Args == {DefaultValue}

\* componentPools.resize(componentId + 1, nullptr) when componentId is past
\* the end, then a new Pool when the slot is null
EnsurePool(pools, cid) ==
    LET resized == IF cid >= Len(pools)
                   THEN [i \in 1..(cid + 1) |->
                            IF i <= Len(pools) THEN pools[i] ELSE Null]
                   ELSE pools
    IN IF resized[cid + 1] = Null
       THEN [resized EXCEPT ![cid + 1] = Ptr(Pool(DefaultCapacity))]
       ELSE resized

\* a mutant of AddComponentSignatures: the signature bit is not set
AddComponentSignaturesNoBit(sigs, entityId, cid) == sigs

\* entityComponentSignatures[entityId].set(componentId, true); the bitset
\* throws std::out_of_range, leaving the signature as it was, for a
\* component id past its width
AddComponentSignatures(sigs, entityId, cid) ==
    IF BitsetInRange(cid)
    THEN [sigs EXCEPT ![entityId + 1] = BitsetSet(@, cid, TRUE)]
    ELSE sigs

\* a mutant of AddComponent: the entity is matched against the systems at once
AddComponentResync(entity, T, object) ==
    LET cid == GetId(Registry, T)
        reg == RegAfter(Registry, T)
        pools == EnsurePool(componentPools, cid)
        sigs == AddComponentSignatures(entityComponentSignatures, entity, cid)
    IN /\ nextId' = reg.next
       /\ componentId' = reg.of
       /\ componentPools' =
              [pools EXCEPT ![cid + 1] = Ptr(PoolSet(Deref(@), entity, object))]
       /\ entityComponentSignatures' = sigs
       /\ systems' = AddEntityToSystems(systems, sigs, entity)
       /\ last' = [op |-> "addComponent", e |-> entity, arg |-> T,
                   threw |-> ~BitsetInRange(cid)]
       /\ pre' = None
       /\ UNCHANGED <<numEntites, entitiesToBeCreated, entitiesToBeDestroyed,
                      freeIds, entityPerTag, tagPerEntityId,
                      entitiesPerGroup, groupsPerEntityId, poolVars>>

\* Coordinator::addComponent<T>
AddComponent(entity, T, object) ==
    LET cid == GetId(Registry, T)
        reg == RegAfter(Registry, T)
        pools == EnsurePool(componentPools, cid)
    IN /\ nextId' = reg.next
       /\ componentId' = reg.of
       /\ componentPools' =
              [pools EXCEPT ![cid + 1] = Ptr(PoolSet(Deref(@), entity, object))]
       /\ entityComponentSignatures' =
              AddComponentSignatures(entityComponentSignatures, entity, cid)
       /\ last' = [op |-> "addComponent", e |-> entity, arg |-> T,
                   threw |-> ~BitsetInRange(cid)]
       /\ pre' = None
       /\ UNCHANGED <<numEntites, entitiesToBeCreated, entitiesToBeDestroyed,
                      freeIds, systems, entityPerTag, tagPerEntityId,
                      entitiesPerGroup, groupsPerEntityId, poolVars>>

\* std::static_pointer_cast<Pool<T>>(componentPools[componentId])->remove(entityId)
RemoveComponentPools(pools, entityId, cid) ==
    [pools EXCEPT ![cid + 1] = Ptr(PoolRemove(Deref(@), entityId))]

\* Coordinator::removeComponent<T>
RemoveComponent(entity, T) ==
    LET cid == GetId(Registry, T)
        reg == RegAfter(Registry, T)
        valid == ~(cid >= Len(componentPools) \/ componentPools[cid + 1] = Null)
    IN /\ nextId' = reg.next
       /\ componentId' = reg.of
       /\ componentPools' =
              IF valid THEN RemoveComponentPools(componentPools, entity, cid)
              ELSE componentPools
       /\ entityComponentSignatures' =
              IF valid /\ BitsetInRange(cid)
              THEN [entityComponentSignatures EXCEPT
                        ![entity + 1] = BitsetSet(@, cid, FALSE)]
              ELSE entityComponentSignatures
       /\ last' = [op |-> "removeComponent", e |-> entity, arg |-> T,
                   threw |-> valid /\ ~BitsetInRange(cid)]
       /\ pre' = None
       /\ UNCHANGED <<numEntites, entitiesToBeCreated, entitiesToBeDestroyed,
                      freeIds, systems, entityPerTag, tagPerEntityId,
                      entitiesPerGroup, groupsPerEntityId, poolVars>>

(***************************************************************************)
(* Coordinator: system management                                          *)
(***************************************************************************)
\* systems.insert(std::make_pair(type_index, newSystem)): unordered_map::insert
\* leaves an existing element in place
InsertSystem(sys, S, newSystem) == IF Has(sys, S) THEN sys ELSE Put(sys, S, newSystem)

\* Coordinator::addSystem<S>
AddSystem(S) ==
    LET reg == NewSystemReg(Registry, S)
    IN /\ nextId' = reg.next
       /\ componentId' = reg.of
       /\ systems' = InsertSystem(systems, S, NewSystem(Registry, S))
       /\ last' = [op |-> "addSystem", e |-> None, arg |-> S, threw |-> FALSE]
       /\ pre' = None
       /\ UNCHANGED <<numEntites, entitiesToBeCreated, entitiesToBeDestroyed,
                      freeIds, componentPools, entityComponentSignatures,
                      entityPerTag, tagPerEntityId, entitiesPerGroup,
                      groupsPerEntityId, poolVars>>

\* The component types other than CompTypes that a configuration declares:
\* OtherType(i) is the i-th of them, and there are enough to fill the
\* signature but for one bit.
OtherType(i) == "T" \o ToString(i)
NumOtherTypes == MAX_COMPONENTS - 1

\* Component<T>::getId() called for the next of the other component types,
\* as the driver's setup does before it creates entities
GetIdCall ==
    /\ numEntites = 0
    /\ nextId < NumOtherTypes
    /\ LET reg == RegAfter(Registry, OtherType(nextId))
       IN /\ nextId' = reg.next
          /\ componentId' = reg.of
    /\ last' = [op |-> "getId", e |-> None, arg |-> OtherType(nextId), threw |-> FALSE]
    /\ pre' = None
    /\ UNCHANGED <<numEntites, entitiesToBeCreated, entitiesToBeDestroyed,
                   freeIds, componentPools, systems, entityComponentSignatures,
                   entityPerTag, tagPerEntityId, entitiesPerGroup,
                   groupsPerEntityId, poolVars>>

(***************************************************************************)
(* Coordinator: tags and groups                                            *)
(***************************************************************************)
\* a mutant of TagEntity: a bound tag is re-bound to the new entity
TagEntityOverwrite(entity, tag) ==
    /\ entityPerTag' = Put(entityPerTag, tag, entity)
    /\ tagPerEntityId' = Emplace(tagPerEntityId, entity, tag)
    /\ last' = [op |-> "tagEntity", e |-> entity, arg |-> tag, threw |-> FALSE]
    /\ pre' = None
    /\ UNCHANGED <<numEntites, entitiesToBeCreated, entitiesToBeDestroyed,
                   freeIds, componentPools, systems, entityComponentSignatures,
                   entitiesPerGroup, groupsPerEntityId, nextId, componentId,
                   poolVars>>

\* Coordinator::tagEntity
TagEntity(entity, tag) ==
    /\ IF ~Has(entityPerTag, tag)
       THEN /\ entityPerTag' = Emplace(entityPerTag, tag, entity)
            /\ tagPerEntityId' = Emplace(tagPerEntityId, entity, tag)
       ELSE UNCHANGED <<entityPerTag, tagPerEntityId>>
    /\ last' = [op |-> "tagEntity", e |-> entity, arg |-> tag, threw |-> FALSE]
    /\ pre' = None
    /\ UNCHANGED <<numEntites, entitiesToBeCreated, entitiesToBeDestroyed,
                   freeIds, componentPools, systems, entityComponentSignatures,
                   entitiesPerGroup, groupsPerEntityId, nextId, componentId,
                   poolVars>>

\* Coordinator::entityHasTag
EntityHasTag(entity, tag) == Has(entityPerTag, tag) /\ entityPerTag[tag] = entity

\* Coordinator::getEntityByTag (None is std::nullopt)
GetEntityByTag(tag) == IF ~Has(entityPerTag, tag) THEN None ELSE entityPerTag[tag]

\* Coordinator::removeEntityTag
RemoveEntityTag(entity) ==
    /\ \E o \in RemoveEntityTagOutcomes(entityPerTag, tagPerEntityId, entity) :
          /\ entityPerTag' = o.entityPerTag
          /\ tagPerEntityId' = o.tagPerEntityId
    /\ last' = [op |-> "removeEntityTag", e |-> entity, arg |-> None, threw |-> FALSE]
    /\ pre' = None
    /\ UNCHANGED <<numEntites, entitiesToBeCreated, entitiesToBeDestroyed,
                   freeIds, componentPools, systems, entityComponentSignatures,
                   entitiesPerGroup, groupsPerEntityId, nextId, componentId,
                   poolVars>>

\* Coordinator::removeTag.  The second erase reads tagEntity->second from the
\* node the first erase has just freed: the identifier it reads is the
\* tagged entity's when the freed memory is still intact, and garbage that
\* matches no key otherwise.  Both outcomes are produced.
RemoveTagOutcomes(ept, tpe, tag) ==
    IF Has(ept, tag)
    THEN {[entityPerTag |-> Erase(ept, tag),
           tagPerEntityId |-> Erase(tpe, ept[tag])],
          [entityPerTag |-> Erase(ept, tag),
           tagPerEntityId |-> tpe]}
    ELSE {[entityPerTag |-> ept, tagPerEntityId |-> tpe]}

RemoveTag(tag) ==
    /\ \E o \in RemoveTagOutcomes(entityPerTag, tagPerEntityId, tag) :
          /\ entityPerTag' = o.entityPerTag
          /\ tagPerEntityId' = o.tagPerEntityId
    /\ last' = [op |-> "removeTag", e |-> None, arg |-> tag, threw |-> FALSE]
    /\ pre' = None
    /\ UNCHANGED <<numEntites, entitiesToBeCreated, entitiesToBeDestroyed,
                   freeIds, componentPools, systems, entityComponentSignatures,
                   entitiesPerGroup, groupsPerEntityId, nextId, componentId,
                   poolVars>>

\* Coordinator::groupEntity
GroupEntity(entity, group) ==
    LET epg == Emplace(entitiesPerGroup, group, {})
        gpe == Emplace(groupsPerEntityId, entity, {})
    IN /\ entitiesPerGroup' = Put(epg, group, epg[group] \cup {entity})
       /\ groupsPerEntityId' = Put(gpe, entity, gpe[entity] \cup {group})
       /\ last' = [op |-> "groupEntity", e |-> entity, arg |-> group, threw |-> FALSE]
       /\ pre' = None
       /\ UNCHANGED <<numEntites, entitiesToBeCreated, entitiesToBeDestroyed,
                      freeIds, componentPools, systems,
                      entityComponentSignatures, entityPerTag, tagPerEntityId,
                      nextId, componentId, poolVars>>

\* Coordinator::entityBelongsToGroup
EntityBelongsToGroup(entity, group) ==
    Has(entitiesPerGroup, group) /\ entity \in entitiesPerGroup[group]

\* Coordinator::getEntitiesByGroup
GetEntitiesByGroup(group) ==
    IF ~Has(entitiesPerGroup, group) THEN <<>>
    ELSE Ascending(entitiesPerGroup[group])

\* Coordinator::removeEntityGroups
RemoveEntityGroups(entity) ==
    LET m == RemoveEntityGroupsMaps(entitiesPerGroup, groupsPerEntityId, entity)
    IN /\ entitiesPerGroup' = m.entitiesPerGroup
       /\ groupsPerEntityId' = m.groupsPerEntityId
       /\ last' = [op |-> "removeEntityGroups", e |-> entity, arg |-> None, threw |-> FALSE]
       /\ pre' = None
       /\ UNCHANGED <<numEntites, entitiesToBeCreated, entitiesToBeDestroyed,
                      freeIds, componentPools, systems,
                      entityComponentSignatures, entityPerTag, tagPerEntityId,
                      nextId, componentId, poolVars>>

\* the loop of removeGroup over a copy of the group's entities
RECURSIVE EraseFromEntities(_, _, _)
EraseFromEntities(gpe, group, entities) ==
    IF entities = {} THEN gpe
    ELSE LET entity == CHOOSE e \in entities : TRUE
             groups == gpe[entity] \ {group}
         IN EraseFromEntities(IF groups = {} THEN Erase(gpe, entity)
                              ELSE Put(gpe, entity, groups),
                              group, entities \ {entity})

\* Coordinator::removeGroup
RemoveGroup(group) ==
    /\ IF Has(entitiesPerGroup, group)
       THEN /\ groupsPerEntityId' =
                   EraseFromEntities(groupsPerEntityId, group, entitiesPerGroup[group])
            /\ entitiesPerGroup' = Erase(entitiesPerGroup, group)
       ELSE UNCHANGED <<entitiesPerGroup, groupsPerEntityId>>
    /\ last' = [op |-> "removeGroup", e |-> None, arg |-> group, threw |-> FALSE]
    /\ pre' = None
    /\ UNCHANGED <<numEntites, entitiesToBeCreated, entitiesToBeDestroyed,
                   freeIds, componentPools, systems, entityComponentSignatures,
                   entityPerTag, tagPerEntityId, nextId, componentId, poolVars>>

\* Coordinator::removeEntityGroup.  entitiesPerGroup.at(group) throws
\* std::out_of_range, before anything is changed, when the entity is in some
\* group and the named group does not exist.
RemoveEntityGroupThrows(entity, group) ==
    Has(groupsPerEntityId, entity) /\ ~Has(entitiesPerGroup, group)

RemoveEntityGroup(entity, group) ==
    /\ IF /\ Has(groupsPerEntityId, entity)
          /\ ~RemoveEntityGroupThrows(entity, group)
          /\ group \in groupsPerEntityId[entity]
       THEN LET entityGroups == groupsPerEntityId[entity] \ {group}
                groupEntities == entitiesPerGroup[group] \ {entity}
            IN /\ groupsPerEntityId' =
                      IF entityGroups = {} THEN Erase(groupsPerEntityId, entity)
                      ELSE Put(groupsPerEntityId, entity, entityGroups)
               /\ entitiesPerGroup' =
                      IF groupEntities = {} THEN Erase(entitiesPerGroup, group)
                      ELSE Put(entitiesPerGroup, group, groupEntities)
       ELSE UNCHANGED <<entitiesPerGroup, groupsPerEntityId>>
    /\ last' = [op |-> "removeEntityGroup", e |-> entity, arg |-> group,
                threw |-> RemoveEntityGroupThrows(entity, group)]
    /\ pre' = None
    /\ UNCHANGED <<numEntites, entitiesToBeCreated, entitiesToBeDestroyed,
                   freeIds, componentPools, systems, entityComponentSignatures,
                   entityPerTag, tagPerEntityId, nextId, componentId, poolVars>>

(***************************************************************************)
(* Coordinator::update                                                     *)
(***************************************************************************)
\* the part of the coordinator the destruction loop works on
FlushState(sys) ==
    [systems |-> sys,
     entityComponentSignatures |-> entityComponentSignatures,
     componentPools |-> componentPools,
     freeIds |-> freeIds,
     entityPerTag |-> entityPerTag,
     tagPerEntityId |-> tagPerEntityId,
     entitiesPerGroup |-> entitiesPerGroup,
     groupsPerEntityId |-> groupsPerEntityId]

\* for (auto pool : componentPools) if (pool) pool->remove(entity.getId())
RemoveFromPools(pools, entity) ==
    [i \in 1..Len(pools) |->
        IF pools[i] = Null THEN Null
        ELSE Ptr(PoolRemove(Deref(pools[i]), entity))]

\* a mutant of PurgeEntity: the entity stays in the systems' lists
PurgeEntityKeepSystems(c, entity) ==
    [c EXCEPT
        !.entityComponentSignatures = [@ EXCEPT ![entity + 1] = {}],
        !.componentPools = RemoveFromPools(@, entity),
        !.freeIds = Append(@, entity)]

\* one pass of the destruction loop, up to the tag and group purge
PurgeEntity(c, entity) ==
    [c EXCEPT
        !.systems = RemoveEntityFromSystems(@, entity),
        !.entityComponentSignatures = [@ EXCEPT ![entity + 1] = {}],
        !.componentPools = RemoveFromPools(@, entity),
        !.freeIds = Append(@, entity)]

\* a mutant of PurgeGroups: the group index is left as it is
PurgeGroupsSkip(c, entity) == c

\* removeEntityGroups(entity) at the end of a pass of the destruction loop
PurgeGroups(c, entity) ==
    LET g == RemoveEntityGroupsMaps(c.entitiesPerGroup, c.groupsPerEntityId, entity)
    IN [c EXCEPT !.entitiesPerGroup = g.entitiesPerGroup,
                 !.groupsPerEntityId = g.groupsPerEntityId]

\* one pass of the destruction loop: every state it can end in
DestroyOne(c, entity) ==
    LET c1 == PurgeEntity(c, entity)
    IN {PurgeGroups([c1 EXCEPT !.entityPerTag = o.entityPerTag,
                               !.tagPerEntityId = o.tagPerEntityId], entity) :
          o \in RemoveEntityTagOutcomes(c1.entityPerTag, c1.tagPerEntityId, entity)}

\* a mutant of DestroyAll: an entity that is still pending creation is
\* passed over
RECURSIVE DestroyAllButCreated(_, _)
DestroyAllButCreated(cs, pending) ==
    IF pending = <<>> THEN cs
    ELSE DestroyAllButCreated(
             IF Head(pending) \in entitiesToBeCreated THEN cs
             ELSE UNION {DestroyOne(c, Head(pending)) : c \in cs},
             Tail(pending))

\* the destruction loop: pending entities in ascending order
RECURSIVE DestroyAll(_, _)
DestroyAll(cs, pending) ==
    IF pending = <<>> THEN cs
    ELSE DestroyAll(UNION {DestroyOne(c, Head(pending)) : c \in cs}, Tail(pending))

\* the (component id, entity) pairs the pools hold
Held(pools) ==
    {x \in (0..(Len(pools) - 1)) \X Handles :
        pools[x[1] + 1] # Null /\ PoolHolds(Deref(pools[x[1] + 1]), x[2])}

\* what update() started from, and the lists as its creation loop left them
Snapshot(flushed) ==
    [entitiesToBeCreated |-> entitiesToBeCreated,
     entitiesToBeDestroyed |-> entitiesToBeDestroyed,
     systems |-> systems,
     flushed |-> flushed,
     entityComponentSignatures |-> entityComponentSignatures,
     held |-> Held(componentPools),
     freeIds |-> freeIds,
     entityPerTag |-> entityPerTag,
     tagPerEntityId |-> tagPerEntityId,
     entitiesPerGroup |-> entitiesPerGroup,
     groupsPerEntityId |-> groupsPerEntityId]

\* Coordinator::update
Update ==
    LET flushed == AddAllToSystems(systems, entityComponentSignatures,
                                   Ascending(entitiesToBeCreated))
    IN /\ \E c \in DestroyAll({FlushState(flushed)},
                              Ascending(entitiesToBeDestroyed)) :
            /\ systems' = c.systems
            /\ entityComponentSignatures' = c.entityComponentSignatures
            /\ componentPools' = c.componentPools
            /\ freeIds' = c.freeIds
            /\ entityPerTag' = c.entityPerTag
            /\ tagPerEntityId' = c.tagPerEntityId
            /\ entitiesPerGroup' = c.entitiesPerGroup
            /\ groupsPerEntityId' = c.groupsPerEntityId
       /\ entitiesToBeCreated' = {}
       /\ entitiesToBeDestroyed' = {}
       /\ last' = [op |-> "update", e |-> None, arg |-> None, threw |-> FALSE]
       /\ pre' = Snapshot(flushed)
       /\ UNCHANGED <<numEntites, nextId, componentId, poolVars>>

(***************************************************************************)
(* Game and PhysicsSystem                                                  *)
(***************************************************************************)
\* the constructor arguments Game::setup passes: the position of the
\* TransformComponent, the velocity of the RigidBodyComponent (a second
\* velocity is added to tell the two coordinates apart)
PositionArgs == {Vec2(100, 100)}
VelocityArgs == {Vec2(30, 0), Vec2(0, 30)}
\* the deltaTime of a tick, in whole units
DeltaTimes == {1, 2}

\* Coordinator::getComponent<T>(entity) for an entity T's pool holds
GetComponent(pools, cid, entity) == PoolGet(Deref(pools[cid + 1]), entity)

\* every state update() can leave the coordinator in
UpdateOutcomes ==
    DestroyAll({FlushState(AddAllToSystems(systems, entityComponentSignatures,
                                           Ascending(entitiesToBeCreated)))},
               Ascending(entitiesToBeDestroyed))

\* a mutant of Integrate: the velocity is added twice
IntegrateTwice(position, velocity, deltaTime) ==
    Vec2(position.x + 2 * velocity.x * deltaTime,
         position.y + 2 * velocity.y * deltaTime)

\* transform.position.x += rigidbody.velocity.x * deltaTime, and the same for y
Integrate(position, velocity, deltaTime) ==
    Vec2(position.x + velocity.x * deltaTime,
         position.y + velocity.y * deltaTime)

\* the body of the loop of PhysicsSystem::update: the transform is a
\* reference into the pool's data
PhysicsUpdateEntity(pools, entity, deltaTime) ==
    LET tid == GetId(Registry, "A")
        rid == GetId(Registry, "B")
        p == Deref(pools[tid + 1])
        moved == Integrate(GetComponent(pools, tid, entity),
                           GetComponent(pools, rid, entity), deltaTime)
    IN [pools EXCEPT ![tid + 1] =
           Ptr([p EXCEPT !.data = VecStore(p.data, p.entityIdToIndex[entity], moved)])]

\* PhysicsSystem::update: the loop over getSystemEntities()
RECURSIVE PhysicsSystemUpdate(_, _, _)
PhysicsSystemUpdate(pools, entities, deltaTime) ==
    IF entities = <<>> THEN pools
    ELSE PhysicsSystemUpdate(PhysicsUpdateEntity(pools, Head(entities), deltaTime),
                             Tail(entities), deltaTime)

\* the positions the pools hold are within the driver's bound
WithinBound(pools, cid) ==
    \A e \in Handles :
        Holds(pools, cid, e) =>
            /\ GetComponent(pools, cid, e).x <= MaxPosition
            /\ GetComponent(pools, cid, e).y <= MaxPosition

\* Game::update(deltaTime): coordinator->update(), then
\* getSystem<PhysicsSystem>().update(coordinator, deltaTime); the driver has
\* registered the PhysicsSystem in setup
GameUpdate(deltaTime) ==
    /\ Has(systems, "S1")
    /\ \E c \in UpdateOutcomes :
          LET pools == PhysicsSystemUpdate(c.componentPools,
                                           c.systems["S1"].entities, deltaTime)
          IN /\ WithinBound(pools, GetId(Registry, "A"))
             /\ systems' = c.systems
             /\ entityComponentSignatures' = c.entityComponentSignatures
             /\ componentPools' = pools
             /\ freeIds' = c.freeIds
             /\ entityPerTag' = c.entityPerTag
             /\ tagPerEntityId' = c.tagPerEntityId
             /\ entitiesPerGroup' = c.entitiesPerGroup
             /\ groupsPerEntityId' = c.groupsPerEntityId
             /\ pre' = [entitiesToBeCreated |-> entitiesToBeCreated,
                        systems |-> c.systems,
                        componentPools |-> c.componentPools]
    /\ entitiesToBeCreated' = {}
    /\ entitiesToBeDestroyed' = {}
    /\ last' = [op |-> "tick", e |-> None, arg |-> deltaTime, threw |-> FALSE]
    /\ UNCHANGED <<numEntites, nextId, componentId, poolVars>>

(***************************************************************************)
(* Specifications                                                          *)
(***************************************************************************)
\* entities, components and systems
Next ==
    \/ Create
    \/ \E e \in Handles : Destroy(e)
    \/ \E e \in InUse, T \in CompTypes, a \in Args : AddComponent(e, T, a)
    \/ \E e \in InUse, T \in CompTypes : RemoveComponent(e, T)
    \/ \E S \in SysTypes : AddSystem(S)
    \/ Update

Spec == Init /\ [][Next]_vars

\* entity identifiers alone
NextIds ==
    \/ Create
    \/ \E e \in Handles : Destroy(e)
    \/ Update

SpecIds == Init /\ [][NextIds]_vars

\* entities and tags
NextTags ==
    \/ Create
    \/ \E e \in Handles : Destroy(e)
    \/ \E e \in Handles, t \in Tags : TagEntity(e, t)
    \/ \E e \in Handles : RemoveEntityTag(e)
    \/ \E t \in Tags : RemoveTag(t)
    \/ Update

SpecTags == Init /\ [][NextTags]_vars

\* entities and groups
NextGroups ==
    \/ Create
    \/ \E e \in Handles : Destroy(e)
    \/ \E e \in Handles, g \in Groups : GroupEntity(e, g)
    \/ \E e \in Handles, g \in Groups : RemoveEntityGroup(e, g)
    \/ \E e \in Handles : RemoveEntityGroups(e)
    \/ \E g \in Groups : RemoveGroup(g)
    \/ Update

SpecGroups == Init /\ [][NextGroups]_vars

\* a configuration with more component types than the signature has bits
NextWidth ==
    \/ GetIdCall
    \/ Create
    \/ \E e \in InUse, T \in CompTypes, a \in Args : AddComponent(e, T, a)
    \/ Update

SpecWidth == Init /\ [][NextWidth]_vars

\* the game: setup calls in any order, then ticks
NextGame ==
    \/ AddSystem("S1")
    \/ Create
    \/ \E e \in InUse, a \in PositionArgs : AddComponent(e, "A", a)
    \/ \E e \in InUse, a \in VelocityArgs : AddComponent(e, "B", a)
    \/ \E deltaTime \in DeltaTimes : GameUpdate(deltaTime)

SpecGame == Init /\ [][NextGame]_vars

\* the identifiers the driver may pass to a component call: those not waiting
\* in the free list, and those create() has just returned (a copy of which
\* may still wait in the free list)
Issued == InUse \cup entitiesToBeCreated

\* entities whose identifiers create() hands out again
NextReuse ==
    \/ Create
    \/ \E e \in Handles : Destroy(e)
    \/ \E e \in Issued, T \in CompTypes, a \in Args : AddComponent(e, T, a)
    \/ \E S \in SysTypes : AddSystem(S)
    \/ Update

SpecReuse == Init /\ [][NextReuse]_vars

\* entities and tags, the tag calls made for issued identifiers only
NextTagsIssued ==
    \/ Create
    \/ \E e \in Handles : Destroy(e)
    \/ \E e \in Issued, t \in Tags : TagEntity(e, t)
    \/ \E e \in Issued : RemoveEntityTag(e)
    \/ \E t \in Tags : RemoveTag(t)
    \/ Update

SpecTagsIssued == Init /\ [][NextTagsIssued]_vars

(***************************************************************************)
(* A stand-alone Pool<T>, driven by set and remove                         *)
(***************************************************************************)
PoolEntities == 0 .. MaxPoolEntity

InitPool ==
    /\ numEntites = 0
    /\ entitiesToBeCreated = {}
    /\ entitiesToBeDestroyed = {}
    /\ freeIds = <<>>
    /\ componentPools = <<>>
    /\ systems = EmptyMap
    /\ entityComponentSignatures = <<>>
    /\ entityPerTag = EmptyMap
    /\ tagPerEntityId = EmptyMap
    /\ entitiesPerGroup = EmptyMap
    /\ groupsPerEntityId = EmptyMap
    /\ nextId = 0
    /\ componentId = EmptyMap
    /\ \E capacity \in 1..MaxCapacity : pool = Pool(capacity)
    /\ shadow = EmptyMap
    /\ last = [op |-> "construct", e |-> None, arg |-> None, threw |-> FALSE]
    /\ pre = None

\* pool.set(entityId, object); shadow is the map the pool stands for
SetCall(entityId, object) ==
    /\ pool' = PoolSet(pool, entityId, object)
    /\ shadow' = Put(shadow, entityId, object)
    /\ last' = [op |-> "set", e |-> entityId, arg |-> object, threw |-> FALSE]
    /\ pre' = pool
    /\ UNCHANGED coordVars

\* pool.remove(entityId)
RemoveCall(entityId) ==
    /\ pool' = PoolRemove(pool, entityId)
    /\ shadow' = Erase(shadow, entityId)
    /\ last' = [op |-> "remove", e |-> entityId, arg |-> None, threw |-> FALSE]
    /\ pre' = pool
    /\ UNCHANGED coordVars

NextPool ==
    \/ \E e \in PoolEntities, v \in Values : SetCall(e, v)
    \/ \E e \in PoolEntities : RemoveCall(e)

SpecPool == InitPool /\ [][NextPool]_vars

\* pool.get(entityId)
GetCall(entityId) ==
    /\ pool' = PoolGetCall(pool, entityId).pool
    /\ shadow' = shadow
    /\ last' = [op |-> "get", e |-> entityId,
                arg |-> PoolGetCall(pool, entityId).value, threw |-> FALSE]
    /\ pre' = pool
    /\ UNCHANGED coordVars

\* a stand-alone Pool<T>, driven by set and get
NextPoolGet ==
    \/ \E e \in PoolEntities, v \in Values : SetCall(e, v)
    \/ \E e \in PoolEntities : GetCall(e)

SpecPoolGet == InitPool /\ [][NextPoolGet]_vars

(***************************************************************************)
(* Properties                                                              *)
(***************************************************************************)
\* the entity's signature is a superset of the system's required signature
Superset(entitySignature, systemSignature) ==
    \A bit \in systemSignature : bit \in entitySignature

InList(sys, S, e) == e \in Range(sys[S].entities)

\* update() has just returned
Flushed == last.op = "update"

\* C1: during update(), every entity of the pending-creation set is appended
\* to the list of exactly the registered systems whose required signature
\* its signature (as it is at the flush) contains, and to no other list; the
\* lists keep it when update() returns unless the same flush destroys it.
C1_FlushAddsToMatchingSystems ==
    Flushed =>
        \A e \in pre.entitiesToBeCreated, S \in DOMAIN pre.systems :
            /\ Count(pre.flushed[S].entities, e) =
                   Count(pre.systems[S].entities, e)
                   + (IF Superset(pre.entityComponentSignatures[e + 1],
                                  pre.systems[S].componentSignature)
                      THEN 1 ELSE 0)
            /\ e \notin pre.entitiesToBeDestroyed =>
                   Count(systems[S].entities, e) = Count(pre.flushed[S].entities, e)

\* an entity with components {A} flushed into the system requiring {A} and
\* not into the one requiring {A, B}, and one with {A, B} flushed into both
C1_Witness ==
    /\ Flushed
    /\ DOMAIN systems = SysTypes
    /\ \E e1, e2 \in pre.entitiesToBeCreated \ pre.entitiesToBeDestroyed :
          /\ Cardinality(entityComponentSignatures[e1 + 1]) = 1
          /\ InList(systems, "S2", e1) /\ ~InList(systems, "S1", e1)
          /\ Cardinality(entityComponentSignatures[e2 + 1]) = 2
          /\ InList(systems, "S2", e2) /\ InList(systems, "S1", e2)

\* C2: create(), addComponent and removeComponent leave every system's
\* membership list as it was.
C2_NoSynchronousMembership ==
    [][last'.op \in {"create", "addComponent", "removeComponent"}
          => systems' = systems]_vars

\* addComponent has just completed the requirement of a registered system
\* for an entity flushed earlier, and an entity still pending creation
\* satisfies a system too: neither is in that system's list
C2_Witness ==
    /\ last.op = "addComponent"
    /\ last.e \notin entitiesToBeCreated
    /\ last.e \in InUse
    /\ \E S \in DOMAIN systems :
          /\ Superset(entityComponentSignatures[last.e + 1],
                      systems[S].componentSignature)
          /\ componentId[last.arg] \in systems[S].componentSignature
          /\ ~InList(systems, S, last.e)
    /\ \E e \in entitiesToBeCreated, S \in DOMAIN systems :
          /\ Superset(entityComponentSignatures[e + 1],
                      systems[S].componentSignature)
          /\ ~InList(systems, S, e)

\* the entities that exist when update() has returned: minted, and not
\* handed back to the free list
Live == Handles \ Range(freeIds)

\* C3 as claimed: after update(), a live entity is in a system's list exactly
\* when its current signature contains the system's required signature.
C3_AsClaimed ==
    Flushed =>
        \A e \in Live, S \in DOMAIN systems :
            InList(systems, S, e) <=>
                Superset(entityComponentSignatures[e + 1],
                         systems[S].componentSignature)

\* C3 as amended: after update(), an entity that this update() took from the
\* pending-creation set and did not destroy is in a system's list exactly
\* when its signature contains the system's required signature or it was in
\* the list before; the membership of every entity that was in neither
\* pending set is what it was before the flush.
C3_FlushedEntitiesMatch ==
    Flushed =>
        /\ \A e \in pre.entitiesToBeCreated \ pre.entitiesToBeDestroyed,
              S \in DOMAIN systems :
              InList(systems, S, e) <=>
                  \/ Superset(entityComponentSignatures[e + 1],
                              systems[S].componentSignature)
                  \/ InList(pre.systems, S, e)
        /\ \A e \in Handles \ (pre.entitiesToBeCreated \cup pre.entitiesToBeDestroyed),
              S \in DOMAIN systems :
              Count(systems[S].entities, e) = Count(pre.systems[S].entities, e)

\* a flush that puts one entity into both systems while an entity flushed
\* earlier, which has since gained the components, stays outside
C3_Witness ==
    /\ Flushed
    /\ DOMAIN systems = SysTypes
    /\ \E e \in pre.entitiesToBeCreated \ pre.entitiesToBeDestroyed :
          InList(systems, "S1", e) /\ InList(systems, "S2", e)
    /\ \E e \in Live \ pre.entitiesToBeCreated :
          /\ Cardinality(entityComponentSignatures[e + 1]) = 2
          /\ ~InList(systems, "S1", e) /\ ~InList(systems, "S2", e)

\* C4: after the update() that follows destroy(e), e is in no system's list,
\* its signature is empty and no pool holds a component for it.
C4_DestroyPurgesComponents ==
    Flushed =>
        \A e \in pre.entitiesToBeDestroyed :
            /\ \A S \in DOMAIN systems : ~InList(systems, S, e)
            /\ entityComponentSignatures[e + 1] = {}
            /\ \A cid \in 0..(Len(componentPools) - 1) :
                   ~Holds(componentPools, cid, e)

\* the flush destroyed an entity that had two components and was in the
\* lists of both systems, while another entity stays in the pools
C4_Witness ==
    /\ Flushed
    /\ \E e \in pre.entitiesToBeDestroyed :
          /\ Cardinality(pre.entityComponentSignatures[e + 1]) = 2
          /\ {<<0, e>>, <<1, e>>} \subseteq pre.held
          /\ DOMAIN pre.systems = SysTypes
          /\ InList(pre.systems, "S1", e) /\ InList(pre.systems, "S2", e)
          /\ \E other \in Handles \ {e} : Holds(componentPools, 0, other)

\* C7: create() returns the head of the free list, and pops it, whenever the
\* free list is not empty; only with an empty free list does it mint the
\* identifier numEntites (the number minted so far).
C7_CreateRecyclesOldestFirst ==
    [][last'.op = "create" =>
          IF freeIds # <<>>
          THEN /\ last'.e = Head(freeIds)
               /\ freeIds' = Tail(freeIds)
               /\ numEntites' = numEntites
               /\ last'.arg = "recycled"
          ELSE /\ last'.e = numEntites
               /\ numEntites' = numEntites + 1
               /\ freeIds' = freeIds
               /\ last'.arg = "minted"]_vars

\* create() has returned identifier 1, freed before identifier 0, which is
\* still waiting in the free list
C7_Witness ==
    /\ last.op = "create"
    /\ last.arg = "recycled"
    /\ last.e = 1
    /\ freeIds = <<0>>
    /\ 1 \in entitiesToBeCreated

\* hasComponent<T>(entity): the signature bit of T's component id
HasComponent(entity, T) ==
    GetId(Registry, T) \in entityComponentSignatures[entity + 1]

\* T's pool exists: componentPools has a non-null entry at T's component id
PoolExists(pools, cid) == cid < Len(pools) /\ pools[cid + 1] # Null

\* in every state the bit and the pool entry agree, and the call that has
\* just returned has left the bit set (addComponent) or clear (removeComponent)
C10_BitIffPoolHolds ==
    \A e \in Handles, T \in CompTypes :
        /\ HasComponent(e, T) <=> Holds(componentPools, GetId(Registry, T), e)
        /\ (last.op = "addComponent" /\ last.e = e /\ last.arg = T)
               => HasComponent(e, T)
        /\ (last.op = "removeComponent" /\ last.e = e /\ last.arg = T)
               => ~HasComponent(e, T)

\* a removeComponent<T> made while T has no pool changes no pool and no signature
C10_RemoveWithoutPoolIsNoOp ==
    [][(/\ last'.op = "removeComponent"
        /\ ~PoolExists(componentPools, GetId(Registry, last'.arg)))
          => UNCHANGED <<componentPools, entityComponentSignatures>>]_vars

C5_DestroyUnbindsTags ==
    Flushed =>
        \A e \in pre.entitiesToBeDestroyed, t \in Tags :
            /\ ~EntityHasTag(e, t)
            /\ Has(entityPerTag, t) => GetEntityByTag(t) # e

\* C6: after the update() that follows destroy(e), e is a member of no
\* group: entityBelongsToGroup(e, g) is false and getEntitiesByGroup(g) does
\* not contain e for every g, e has no entry in groupsPerEntityId, and a
\* group all of whose members this update() destroyed (so one whose only
\* member was e) is no longer a key of entitiesPerGroup.
C6_DestroyLeavesGroups ==
    Flushed =>
        /\ \A e \in pre.entitiesToBeDestroyed :
              /\ \A g \in Groups :
                    /\ ~EntityBelongsToGroup(e, g)
                    /\ e \notin Range(GetEntitiesByGroup(g))
              /\ ~Has(groupsPerEntityId, e)
        /\ \A g \in DOMAIN pre.entitiesPerGroup :
              pre.entitiesPerGroup[g] \subseteq pre.entitiesToBeDestroyed
                  => ~Has(entitiesPerGroup, g)

\* update() has destroyed an entity that was the only member of one group
\* and shared a second group with an entity that stays
C6_Witness ==
    /\ Flushed
    /\ \E e \in pre.entitiesToBeDestroyed :
          /\ Has(pre.groupsPerEntityId, e)
          /\ \E g1 \in DOMAIN pre.entitiesPerGroup, g2 \in DOMAIN pre.entitiesPerGroup :
                /\ pre.entitiesPerGroup[g1] = {e}
                /\ e \in pre.entitiesPerGroup[g2]
                /\ pre.entitiesPerGroup[g2] \ pre.entitiesToBeDestroyed # {}
                /\ ~Has(entitiesPerGroup, g1)
                /\ Has(entitiesPerGroup, g2)

\* C8: after every Pool::set and Pool::remove, size is the number of entity
\* ids present, entityIdToIndex and indexToEntityId are mutual inverses, and
\* the indices in use are exactly 0 .. size - 1.
C8_PoolDense ==
    /\ pool.size = Cardinality(DOMAIN shadow)
    /\ DOMAIN pool.entityIdToIndex = DOMAIN shadow
    /\ pool.size = Cardinality(DOMAIN pool.entityIdToIndex)
    /\ DOMAIN pool.indexToEntityId = 0..(pool.size - 1)
    /\ \A e \in DOMAIN pool.entityIdToIndex :
          /\ Has(pool.indexToEntityId, pool.entityIdToIndex[e])
          /\ pool.indexToEntityId[pool.entityIdToIndex[e]] = e
    /\ \A i \in DOMAIN pool.indexToEntityId :
          /\ Has(pool.entityIdToIndex, pool.indexToEntityId[i])
          /\ pool.entityIdToIndex[pool.indexToEntityId[i]] = i

\* remove has just taken the first slot of a full pool of three entities
C8_Witness ==
    /\ last.op = "remove"
    /\ pre.size = MaxPoolEntity + 1
    /\ pre.entityIdToIndex[last.e] = 0
    /\ pool.size = MaxPoolEntity

\* C9: the pool is the map its calls describe: an entity is present exactly
\* when it was set and not removed since, and get(e) of a present entity is
\* the value most recently set for e.
C9_PoolIsMap ==
    /\ \A e \in PoolEntities : PoolHolds(pool, e) <=> Has(shadow, e)
    /\ \A e \in DOMAIN shadow : PoolHolds(pool, e) => PoolGet(pool, e) = shadow[e]
    /\ last.op = "set" => PoolHolds(pool, last.e) /\ PoolGet(pool, last.e) = last.arg
    /\ last.op = "remove" => ~PoolHolds(pool, last.e)

\* remove has just taken a slot that was not the last one, from a pool that
\* had grown past its initial capacity, and the entity moved into the freed
\* slot holds a value different from the removed one's
C9_Witness ==
    /\ last.op = "remove"
    /\ PoolHolds(pre, last.e)
    /\ pre.entityIdToIndex[last.e] < pre.size - 1
    /\ pre.data.len > MaxCapacity
    /\ LET moved == pre.indexToEntityId[pre.size - 1]
       IN /\ PoolGet(pre, moved) # PoolGet(pre, last.e)
          /\ pool.entityIdToIndex[moved] = pre.entityIdToIndex[last.e]
          /\ PoolGet(pool, moved) = PoolGet(pre, moved)

\* C11: tagEntity(e2, t) made while t is bound to a different entity e1
\* leaves both tag maps unchanged: afterwards getEntityByTag(t) is still e1
\* and entityHasTag(e2, t) is false.
C11_BoundTagIsNotRebound ==
    [][(/\ last'.op = "tagEntity"
        /\ Has(entityPerTag, last'.arg)
        /\ entityPerTag[last'.arg] # last'.e)
          => /\ UNCHANGED <<entityPerTag, tagPerEntityId>>
             /\ Has(entityPerTag', last'.arg)
             /\ entityPerTag'[last'.arg] = entityPerTag[last'.arg]
             /\ entityPerTag'[last'.arg] # last'.e]_vars

\* tagEntity has just returned for an untagged entity and a tag that another
\* entity holds
C11_Witness ==
    /\ last.op = "tagEntity"
    /\ Has(entityPerTag, last.arg)
    /\ entityPerTag[last.arg] # last.e
    /\ Has(tagPerEntityId, entityPerTag[last.arg])
    /\ ~Has(tagPerEntityId, last.e)
    /\ ~EntityHasTag(last.e, last.arg)

\* C12: the tag index is one-to-one: no entity is the value of two tags in
\* entityPerTag, and entityPerTag and tagPerEntityId are mutual inverses
\* (t maps to e exactly when e maps to t).
C12_TagIndexOneToOne ==
    /\ \A t1 \in DOMAIN entityPerTag, t2 \in DOMAIN entityPerTag :
          entityPerTag[t1] = entityPerTag[t2] => t1 = t2
    /\ \A t \in DOMAIN entityPerTag :
          /\ Has(tagPerEntityId, entityPerTag[t])
          /\ tagPerEntityId[entityPerTag[t]] = t
    /\ \A e \in DOMAIN tagPerEntityId :
          /\ Has(entityPerTag, tagPerEntityId[e])
          /\ entityPerTag[tagPerEntityId[e]] = e

\* C13: the group index is consistent: e is in the member set of g exactly
\* when g is in the group set of e, and no key of either map has an empty set.
C13_GroupIndexConsistent ==
    /\ \A g \in DOMAIN entitiesPerGroup :
          /\ entitiesPerGroup[g] # {}
          /\ \A e \in entitiesPerGroup[g] :
                Has(groupsPerEntityId, e) /\ g \in groupsPerEntityId[e]
    /\ \A e \in DOMAIN groupsPerEntityId :
          /\ groupsPerEntityId[e] # {}
          /\ \A g \in groupsPerEntityId[e] :
                Has(entitiesPerGroup, g) /\ e \in entitiesPerGroup[g]

\* removeEntityGroup has just returned normally: the entity is outside the
\* named group and still in the other one, and the named group still exists
\* with the other entity, which is in no second group
C13_Witness ==
    /\ last.op = "removeEntityGroup"
    /\ ~last.threw
    /\ ~EntityBelongsToGroup(last.e, last.arg)
    /\ Has(groupsPerEntityId, last.e)
    /\ Has(entitiesPerGroup, last.arg)
    /\ \E other \in entitiesPerGroup[last.arg] :
          groupsPerEntityId[other] = {last.arg}

\* C14: when addSystem<S> returns, the registered instance of S is the one
\* just constructed, so its membership list is empty, whether or not an
\* instance of S was registered before the call.
C14_AddSystemReplaces ==
    last.op = "addSystem" =>
        /\ Has(systems, last.arg)
        /\ systems[last.arg].entities = <<>>

\* a destroy(e) made while e is already pending destruction changes nothing
\* of the coordinator, so the flush that follows starts from the same state
C15_RepeatedDestroyChangesNothing ==
    [][(last'.op = "destroy" /\ last'.e \in entitiesToBeDestroyed)
          => UNCHANGED coordVars]_vars

\* the flush appends each destroyed identifier to the free list once
C15_FlushFreesOnce ==
    Flushed =>
        \A e \in Handles :
            Count(freeIds, e) =
                Count(pre.freeIds, e) + (IF e \in pre.entitiesToBeDestroyed THEN 1 ELSE 0)

\* C15: destroy(e) is idempotent before a flush: repeating it leaves the
\* state that update() starts from as one call left it, and that update()
\* appends e's identifier to the free list exactly once.
C15_DestroyIdempotent ==
    C15_RepeatedDestroyChangesNothing /\ []C15_FlushFreesOnce

\* destroy has just been repeated for an entity that is pending destruction
\* while another identifier is already in the free list
C15_Witness ==
    /\ last.op = "destroy"
    /\ last.arg = "repeated"
    /\ last.e \in entitiesToBeDestroyed
    /\ Count(freeIds, last.e) = 0
    /\ freeIds # <<>>

\* C16: a redundant removal raises no error and changes neither the tag
\* maps nor the group maps: removeEntityTag(e) for an untagged e, removeTag(t)
\* for an unbound t, removeGroup(g) for a group that does not exist,
\* removeEntityGroups(e) for an ungrouped e, and removeEntityGroup(e, g) for
\* an e that is not a member of g.
C16_RedundantRemovalIsNoOp ==
    [][(\/ /\ last'.op = "removeEntityTag"
           /\ ~Has(tagPerEntityId, last'.e)
           /\ \A t \in Tags : ~EntityHasTag(last'.e, t)
        \/ /\ last'.op = "removeTag"
           /\ ~Has(entityPerTag, last'.arg)
        \/ /\ last'.op = "removeGroup"
           /\ ~Has(entitiesPerGroup, last'.arg)
        \/ /\ last'.op = "removeEntityGroups"
           /\ ~Has(groupsPerEntityId, last'.e)
        \/ /\ last'.op = "removeEntityGroup"
           /\ ~EntityBelongsToGroup(last'.e, last'.arg))
          => /\ ~last'.threw
             /\ UNCHANGED <<entityPerTag, tagPerEntityId,
                            entitiesPerGroup, groupsPerEntityId>>]_vars

\* C17: a component type whose identifier is past the signature width is
\* rejected before any entity state is touched: no pool holds a component
\* for an entity whose signature does not record the component's type.
C17_NoPoolEntryWithoutBit ==
    \A e \in Handles, T \in CompTypes :
        Holds(componentPools, GetId(Registry, T), e) => HasComponent(e, T)

\* the position of entity e in the Transform pool of pools
PositionOf(pools, e) == GetComponent(pools, GetId(Registry, "A"), e)
VelocityOf(pools, e) == GetComponent(pools, GetId(Registry, "B"), e)

\* C18: in one tick the flush runs before the physics pass, and the pass
\* adds velocity * deltaTime once to the position of every entity in the
\* PhysicsSystem's list: an entity pending creation with both components is
\* in the list when the tick returns and has been moved by this tick, every
\* listed entity is at its old position plus velocity * deltaTime, and no
\* other position and no velocity has changed.
C18_TickFlushesThenIntegrates ==
    last.op = "tick" =>
        /\ \A e \in pre.entitiesToBeCreated :
              (HasComponent(e, "A") /\ HasComponent(e, "B"))
                  => InList(systems, "S1", e)
        /\ \A e \in Range(systems["S1"].entities) :
              /\ PositionOf(componentPools, e).x =
                     PositionOf(pre.componentPools, e).x
                     + VelocityOf(pre.componentPools, e).x * last.arg
              /\ PositionOf(componentPools, e).y =
                     PositionOf(pre.componentPools, e).y
                     + VelocityOf(pre.componentPools, e).y * last.arg
              /\ VelocityOf(componentPools, e) = VelocityOf(pre.componentPools, e)
        /\ \A e \in Handles \ Range(systems["S1"].entities), T \in CompTypes :
              /\ Holds(componentPools, GetId(Registry, T), e)
                     <=> Holds(pre.componentPools, GetId(Registry, T), e)
              /\ Holds(componentPools, GetId(Registry, T), e) =>
                     GetComponent(componentPools, GetId(Registry, T), e) =
                     GetComponent(pre.componentPools, GetId(Registry, T), e)

\* the driver's scenario: the first tick, with deltaTime 1, has flushed the
\* entity created at (100, 100) with velocity (30, 0) into the
\* PhysicsSystem's list and moved it to (130, 100)
C18_Witness ==
    /\ last.op = "tick"
    /\ last.arg = 1
    /\ 0 \in pre.entitiesToBeCreated
    /\ systems["S1"].entities = <<0>>
    /\ PositionOf(pre.componentPools, 0) = Vec2(100, 100)
    /\ VelocityOf(componentPools, 0) = Vec2(30, 0)
    /\ PositionOf(componentPools, 0) = Vec2(130, 100)

\* C19: destroy(e) only adds e to the pending-destruction set: the systems'
\* lists, the signatures, the pools, the tag and group maps, the free list
\* and the pending-creation set are as they were.
C19_DestroyOnlyQueues ==
    [][last'.op = "destroy" =>
          /\ entitiesToBeDestroyed' = entitiesToBeDestroyed \cup {last'.e}
          /\ UNCHANGED <<numEntites, entitiesToBeCreated, freeIds,
                         componentPools, systems, entityComponentSignatures,
                         entityPerTag, tagPerEntityId, entitiesPerGroup,
                         groupsPerEntityId, nextId, componentId>>]_vars

\* destroy has just been called for the first time for a flushed entity that
\* has a component and is in a system's list, while the free list is not empty
C19_Witness ==
    /\ last.op = "destroy"
    /\ last.arg = "first"
    /\ last.e \in entitiesToBeDestroyed
    /\ last.e \notin Range(freeIds)
    /\ freeIds # <<>>
    /\ entityComponentSignatures[last.e + 1] # {}
    /\ \E S \in DOMAIN systems : InList(systems, S, last.e)

\* C20: update() runs its creation loop before its destruction loop: an
\* entity in both pending sets is first appended to the lists of the systems
\* it matches and then purged, so that when update() returns it is in no
\* list, its signature is empty, no pool holds a component for it and its
\* identifier is in the free list; both pending sets are empty after update().
C20_CreatedThenDestroyed ==
    Flushed =>
        /\ entitiesToBeCreated = {}
        /\ entitiesToBeDestroyed = {}
        /\ \A e \in pre.entitiesToBeCreated \cap pre.entitiesToBeDestroyed :
              /\ \A S \in DOMAIN systems :
                    /\ Superset(pre.entityComponentSignatures[e + 1],
                                pre.systems[S].componentSignature)
                           => InList(pre.flushed, S, e)
                    /\ ~InList(systems, S, e)
              /\ entityComponentSignatures[e + 1] = {}
              /\ \A T \in CompTypes : ~Holds(componentPools, GetId(Registry, T), e)
              /\ e \in Range(freeIds)

\* update() has flushed an entity that was in both pending sets, had both
\* components and matched both systems, next to an entity that stays
C20_Witness ==
    /\ Flushed
    /\ DOMAIN pre.systems = SysTypes
    /\ \E e \in pre.entitiesToBeCreated \cap pre.entitiesToBeDestroyed :
          /\ Cardinality(pre.entityComponentSignatures[e + 1]) = 2
          /\ <<0, e>> \in pre.held
          /\ InList(pre.flushed, "S1", e) /\ InList(pre.flushed, "S2", e)
          /\ ~InList(pre.systems, "S1", e)
    /\ \E other \in pre.entitiesToBeCreated \ pre.entitiesToBeDestroyed :
          InList(systems, "S2", other)

\* the part of sequence s after its first n elements
Suffix(s, n) == SubSeq(s, n + 1, Len(s))

StrictlyAscending(s) == \A i \in 1..(Len(s) - 1) : s[i] < s[i + 1]

\* C21: a flush works in ascending identifier order, whatever the order of
\* the create() and destroy() calls was: what its creation loop appends to a
\* system's list is in ascending order, and the identifiers it appends to
\* the free list are the destroyed ones in ascending order.
C21_FlushInAscendingOrder ==
    Flushed =>
        /\ \A S \in DOMAIN pre.systems :
              LET before == pre.systems[S].entities
                  after == pre.flushed[S].entities
              IN /\ SubSeq(after, 1, Len(before)) = before
                 /\ StrictlyAscending(Suffix(after, Len(before)))
                 /\ Range(Suffix(after, Len(before))) \subseteq pre.entitiesToBeCreated
        /\ SubSeq(freeIds, 1, Len(pre.freeIds)) = pre.freeIds
        /\ StrictlyAscending(Suffix(freeIds, Len(pre.freeIds)))
        /\ Range(Suffix(freeIds, Len(pre.freeIds))) = pre.entitiesToBeDestroyed

\* one update() has appended entities 0 and 1, in that order, to a system's
\* list and then to the free list
C21_Witness ==
    /\ Flushed
    /\ pre.entitiesToBeCreated = {0, 1}
    /\ pre.entitiesToBeDestroyed = {0, 1}
    /\ \E S \in DOMAIN pre.systems :
          Suffix(pre.flushed[S].entities, Len(pre.systems[S].entities)) = <<0, 1>>
    /\ Suffix(freeIds, Len(pre.freeIds)) = <<0, 1>>

\* C22: identifiers are unique: the free list holds no identifier twice and
\* no identifier of an entity that is pending creation, so create() does not
\* hand out an identifier that another entity is using.
C22_FreeListUnique ==
    /\ \A e \in Handles : Count(freeIds, e) <= 1
    /\ Range(freeIds) \cap entitiesToBeCreated = {}

\* C23: no system's list contains an entity identifier more than once.
C23_NoDuplicateMembers ==
    \A S \in DOMAIN systems, e \in Handles : Count(systems[S].entities, e) <= 1

C25_GetIsPureLookup ==
    /\ last.op = "get" =>
          /\ pool.size = pre.size
          /\ pool.entityIdToIndex = pre.entityIdToIndex
          /\ pool.indexToEntityId = pre.indexToEntityId
    /\ last.op = "set" =>
          /\ pool.size = Cardinality(DOMAIN shadow)
          /\ \A e \in DOMAIN shadow :
                VecAt(pool.data, pool.entityIdToIndex[e]) = shadow[e]

\* C26: an identifier create() has just taken from the free list has an empty
\* signature, no entry in any component pool, no tag bound to it in either
\* tag map, no group membership, and is in no system's list.
C26_RecycledIdIsClean ==
    (last.op = "create" /\ last.arg = "recycled") =>
        /\ entityComponentSignatures[last.e + 1] = {}
        /\ \A cid \in 0..(Len(componentPools) - 1) :
              ~Holds(componentPools, cid, last.e)
        /\ ~Has(tagPerEntityId, last.e)
        /\ \A t \in DOMAIN entityPerTag : entityPerTag[t] # last.e
        /\ ~Has(groupsPerEntityId, last.e)
        /\ \A g \in DOMAIN entitiesPerGroup : last.e \notin entitiesPerGroup[g]
        /\ \A S \in DOMAIN systems : ~InList(systems, S, last.e)

=============================================================================
